---- MODULE Spec2Model ----
(***************************************************************************)
(* ChronoVault (src/app.py): time-locked message delivery.                 *)
(*                                                                         *)
(* The store (tables user and time_message) is shared and durable.  A      *)
(* process instance p runs the module top to bottom: it takes its          *)
(* APP_START_TIME, starts the BackgroundScheduler, serves requests, and on *)
(* server exit shuts the scheduler down.  The scheduler job                *)
(* check_and_send_messages is modelled statement by statement, because     *)
(* two process instances that share the store interleave at the store and  *)
(* mail calls.                                                             *)
(*                                                                         *)
(* Spec is the delivery engine, WebSpec the routes, LiveSpec the scheduler *)
(* under fairness; AttemptSpec and LifecycleSpec call send_time_message,   *)
(* init_scheduler and the shutdown path directly, on any store.            *)
(***************************************************************************)
EXTENDS Integers, Sequences, FiniteSets, TLC

\* ------------------------------------------------------------------ bounds
MaxTime == 2
MaxMsgs == 2
MaxFailures == 1
MaxStopCalls == 2

\* Process instances that may run against the one store, concurrently or one
\* after the other (a restart is instance 2 started after instance 1 exited);
\* they are numbered in the order they start.
Procs == {1, 2}

\* Python None / SQL NULL in an integer-valued place.
NoneVal == -1

\* Form inputs of the routes ("" is an empty field).
Usernames == {"", "ann"}
Emails == {"ann@x"}
Passwords == {"pw", "bad"}
Contents == {"", "hello"}
Recipients == {"bob@x"}
\* delivery_date + delivery_time: a value strptime rejects, or a minute.
BadFormat == NoneVal - 1
DeliveryInputs == {BadFormat} \cup (0..MaxTime)

VARIABLES
    clock,             \* datetime.now()
    users,             \* table user: sequence, row id = index
    messages,          \* table time_message: sequence, row id = index
    session,           \* the client's signed session cookie
    test_mails,        \* addresses /test_email has mailed
    APP_START_TIME,    \* per process instance; NoneVal before it starts
    phase,             \* per process instance: where the module's run is
    scheduler,         \* per process instance: the global `scheduler`
    instances,         \* per process instance: BackgroundSchedulers created
                       \* and started, each with the one job 'message_checker'
    shutdown_runs,     \* per process instance, history: the value of
                       \* `scheduler` at each run of the shutdown path
    pc,                \* per process instance: position of the job thread
    current_time,      \* check_and_send_messages: local current_time
    pending_messages,  \* check_and_send_messages: ids the query returned
    idx,               \* position of the loop of line 128 in pending_messages
    failed,            \* history: ids whose attempt raised in this tick
    notified,          \* history: ids a mail.send has succeeded for
    returned_early,    \* history: ids of direct send_time_message calls that
                       \* returned at line 79
    failures           \* history: injected failures so far

vars == <<clock, users, messages, session, test_mails, APP_START_TIME, phase,
          scheduler, instances, shutdown_runs, pc, current_time, pending_messages, idx, failed,
          notified, returned_early, failures>>

storeVars == <<users, messages>>
webVars == <<session, test_mails>>
procVars == <<APP_START_TIME, phase, scheduler, instances, shutdown_runs>>
tickVars == <<pc, current_time, pending_messages, idx, failed>>
histVars == <<notified, returned_early>>

MsgIds == 1..MaxMsgs

\* ------------------------------------------------------------ the store
\* TimeMessage(...) with the column defaults of the model class.
TimeMessage(id, user_id, content, recipient_email, delivery_datetime, now) ==
    [id |-> id, user_id |-> user_id, content |-> content,
     recipient_email |-> recipient_email,
     delivery_datetime |-> delivery_datetime,
     delivered |-> FALSE, created_at |-> now, delivered_at |-> NoneVal]

\* TimeMessage.query.filter(delivered == False, delivery_datetime <= now)
\* is DueUndelivered.  The two variants before it drop the time condition and
\* make it strict; NoEarlyDelivery and EventualDelivery tell them apart.
DueUndeliveredNoTimeFilter(msgs, now) ==
    {i \in DOMAIN msgs : ~msgs[i].delivered}

DueUndeliveredStrict(msgs, now) ==
    {i \in DOMAIN msgs : ~msgs[i].delivered /\ msgs[i].delivery_datetime < now}

DueUndelivered(msgs, now) ==
    {i \in DOMAIN msgs : ~msgs[i].delivered /\ msgs[i].delivery_datetime <= now}

\* .all(): the rows in primary-key order.
RECURSIVE AscendingSeq(_)
AscendingSeq(S) ==
    IF S = {} THEN <<>>
    ELSE LET lo == CHOOSE x \in S : \A y \in S : x <= y
         IN <<lo>> \o AscendingSeq(S \ {lo})

\* send_time_message line 78: `if not message or message.delivered: return`
\* is AlreadyHandled; the variant before it tests `not message` alone, which
\* IdempotentRedispatch tells apart.
AlreadyHandledAbsentOnly(msgs, id) ==
    id \notin DOMAIN msgs

AlreadyHandled(msgs, id) ==
    \/ id \notin DOMAIN msgs
    \/ msgs[id].delivered

\* lines 104-106: the row update the commit flushes,
\* UPDATE time_message SET delivered=1, delivered_at=? WHERE id=?
\* is MarkDelivered; the variant before it flips the flag, which
\* DeliveredMonotonic tells apart.
MarkDeliveredToggle(msgs, id, now) ==
    [msgs EXCEPT ![id].delivered = ~msgs[id].delivered,
                 ![id].delivered_at = now]

\* Two more variants of the update: without its WHERE clause (FrameOfDelivery
\* tells it apart) and without delivered_at (DeliveredIffDeliveredAt does).
MarkDeliveredAll(msgs, id, now) ==
    [i \in DOMAIN msgs |->
        [msgs[i] EXCEPT !.delivered = TRUE, !.delivered_at = now]]

MarkDeliveredFlagOnly(msgs, id, now) ==
    [msgs EXCEPT ![id].delivered = TRUE]

MarkDelivered(msgs, id, now) ==
    [msgs EXCEPT ![id].delivered = TRUE, ![id].delivered_at = now]

\* send_time_message(message_id) as one call (lines 73-111) on the store
\* `msgs` at time `now`: the store it leaves and the number of mails it sent.
\* mail_ok and commit_ok say whether lines 101 and 106 return or raise.
send_time_message(msgs, message_id, now, mail_ok, commit_ok) ==
    IF AlreadyHandled(msgs, message_id) THEN [messages |-> msgs, mails |-> 0]
    ELSE IF ~mail_ok THEN [messages |-> msgs, mails |-> 0]
    ELSE IF ~commit_ok THEN [messages |-> msgs, mails |-> 1]
    ELSE [messages |-> MarkDelivered(msgs, message_id, now), mails |-> 1]

\* ------------------------------------------------------------------ Init
Init ==
    /\ clock = 0
    /\ users = <<>>
    /\ messages = <<>>
    /\ session = [user_id |-> NoneVal, username |-> "", app_start_time |-> NoneVal]
    /\ test_mails = {}
    /\ APP_START_TIME = [p \in Procs |-> NoneVal]
    /\ phase = [p \in Procs |-> "down"]
    /\ scheduler = [p \in Procs |-> "None"]
    /\ instances = [p \in Procs |-> 0]
    /\ shutdown_runs = [p \in Procs |-> <<>>]
    /\ pc = [p \in Procs |-> "idle"]
    /\ current_time = [p \in Procs |-> NoneVal]
    /\ pending_messages = [p \in Procs |-> <<>>]
    /\ idx = [p \in Procs |-> 0]
    /\ failed = [p \in Procs |-> {}]
    /\ notified = {}
    /\ returned_early = {}
    /\ failures = 0

\* Time passes.
Advance ==
    /\ clock < MaxTime
    /\ clock' = clock + 1
    /\ UNCHANGED <<storeVars, webVars, procVars, tickVars, histVars, failures>>

\* ------------------------------------------------- process and scheduler
\* time.time() at import (line 12): later than every earlier instance's.
RECURSIVE MaxOf(_)
MaxOf(S) ==
    IF S = {} THEN 0
    ELSE LET x == CHOOSE x \in S : TRUE
             r == MaxOf(S \ {x})
         IN IF x > r THEN x ELSE r

FreshStartTime == 1 + MaxOf({APP_START_TIME[q] : q \in Procs})

\* init_scheduler, on the value of the global `scheduler`.
init_scheduler(s) == IF s = "None" THEN "running" ELSE s

\* init_scheduler, on the number n of schedulers created so far: lines
\* 142-149 run under the test of line 141 (init_scheduler_instances).  The
\* variant before it runs them on every call, which SingleScheduler tells
\* apart.
init_scheduler_instancesUnguarded(s, n) == n + 1

init_scheduler_instances(s, n) == IF s = "None" THEN n + 1 ELSE n

\* `if scheduler: scheduler.shutdown()` (lines 345-346, and the lambda of
\* line 155), on the value of the global `scheduler` (shutdown_path).  The
\* variant before it has no test, which StopNeverStarted tells apart.
shutdown_pathUnguarded(s) == "stopped"

shutdown_path(s) == IF s = "None" THEN s ELSE "stopped"

\* python app.py: lines 12, 153-155, 334-343, up to app.run serving.
ProcStart(p) ==
    /\ phase[p] = "down"
    /\ \A q \in Procs : q < p => phase[q] # "down"
    /\ APP_START_TIME' = [APP_START_TIME EXCEPT ![p] = FreshStartTime]
    /\ scheduler' = [scheduler EXCEPT ![p] = init_scheduler(init_scheduler(@))]
    /\ instances' = [instances EXCEPT ![p] =
                       init_scheduler_instances(init_scheduler(scheduler[p]),
                           init_scheduler_instances(scheduler[p], @))]
    /\ phase' = [phase EXCEPT ![p] = "serving"]
    /\ UNCHANGED <<clock, storeVars, webVars, shutdown_runs, tickVars,
                   histVars, failures>>

\* app.run returns; the finally block calls scheduler.shutdown(), which stops
\* the scheduler at once and then waits for the running job (ServerExit).  In
\* the variant before it the stop also writes off what is due, which
\* MessagesSurviveStop tells apart.
ServerExitMarksPending(p) ==
    /\ phase[p] = "serving"
    /\ phase' = [phase EXCEPT ![p] = "finally"]
    /\ scheduler' = [scheduler EXCEPT ![p] = shutdown_path(@)]
    /\ shutdown_runs' = [shutdown_runs EXCEPT ![p] = Append(@, scheduler[p])]
    /\ messages' = [i \in DOMAIN messages |->
                      IF i \in DueUndelivered(messages, clock)
                      THEN [messages[i] EXCEPT !.delivered = TRUE,
                                               !.delivered_at = clock]
                      ELSE messages[i]]
    /\ UNCHANGED <<clock, users, webVars, APP_START_TIME, instances,
                   tickVars, notified, returned_early, failures>>

ServerExit(p) ==
    /\ phase[p] = "serving"
    /\ phase' = [phase EXCEPT ![p] = "finally"]
    /\ scheduler' = [scheduler EXCEPT ![p] = shutdown_path(@)]
    /\ shutdown_runs' = [shutdown_runs EXCEPT ![p] = Append(@, scheduler[p])]
    /\ UNCHANGED <<clock, storeVars, webVars, APP_START_TIME, instances,
                   tickVars, notified, returned_early, failures>>

\* scheduler.shutdown() (wait=True) returns once no job is running
\* (ShutdownReturn).  The variant before it is shutdown(wait=False), which
\* GracefulShutdown tells apart.
ShutdownReturnNoWait(p) ==
    /\ phase[p] = "finally"
    /\ phase' = [phase EXCEPT ![p] = "atexit"]
    /\ UNCHANGED <<clock, storeVars, webVars, APP_START_TIME, scheduler,
                   instances, shutdown_runs, tickVars, histVars, failures>>

ShutdownReturn(p) ==
    /\ phase[p] = "finally"
    /\ pc[p] = "idle"
    /\ phase' = [phase EXCEPT ![p] = "atexit"]
    /\ UNCHANGED <<clock, storeVars, webVars, APP_START_TIME, scheduler,
                   instances, shutdown_runs, tickVars, histVars, failures>>

\* The interpreter exits and runs the atexit hook of line 155:
\* scheduler.shutdown() if scheduler else None.
AtExit(p) ==
    /\ phase[p] = "atexit"
    /\ phase' = [phase EXCEPT ![p] = "exited"]
    /\ scheduler' = [scheduler EXCEPT ![p] = shutdown_path(@)]
    /\ shutdown_runs' = [shutdown_runs EXCEPT ![p] = Append(@, scheduler[p])]
    /\ UNCHANGED <<clock, storeVars, webVars, APP_START_TIME, instances,
                   tickVars, histVars, failures>>

\* ------------------------------------------------ check_and_send_messages
CanFail == failures < MaxFailures

\* The message id the loop of line 128 is at.
Current(p) == pending_messages[p][idx[p]]

\* lines 118-126: current_time is captured and the due query succeeds; an
\* empty result ends the tick.
QueryOk(p) ==
    /\ scheduler[p] = "running"
    /\ pc[p] = "idle"
    /\ LET rows == AscendingSeq(DueUndelivered(messages, clock))
       IN /\ current_time' = [current_time EXCEPT ![p] = clock]
          /\ pending_messages' = [pending_messages EXCEPT ![p] = rows]
          /\ idx' = [idx EXCEPT ![p] = IF rows = <<>> THEN 0 ELSE 1]
          /\ pc' = [pc EXCEPT ![p] = IF rows = <<>> THEN "done" ELSE "fetch"]
    /\ failed' = [failed EXCEPT ![p] = {}]
    /\ UNCHANGED <<clock, storeVars, webVars, procVars, histVars, failures>>

\* lines 121-124 raise (store unavailable): caught at line 132 (QueryFails).
\* In the variant before it the exception also stops the scheduler, which
\* TickFaultContained tells apart.
QueryFailsStopsScheduler(p) ==
    /\ scheduler[p] = "running"
    /\ pc[p] = "idle"
    /\ CanFail
    /\ failures' = failures + 1
    /\ current_time' = [current_time EXCEPT ![p] = clock]
    /\ pc' = [pc EXCEPT ![p] = "error"]
    /\ scheduler' = [scheduler EXCEPT ![p] = "stopped"]
    /\ UNCHANGED <<clock, storeVars, webVars, APP_START_TIME, phase,
                   instances, shutdown_runs, pending_messages, idx, failed,
                   histVars>>

QueryFails(p) ==
    /\ scheduler[p] = "running"
    /\ pc[p] = "idle"
    /\ CanFail
    /\ failures' = failures + 1
    /\ current_time' = [current_time EXCEPT ![p] = clock]
    /\ pc' = [pc EXCEPT ![p] = "error"]
    /\ UNCHANGED <<clock, storeVars, webVars, procVars, pending_messages,
                   idx, failed, histVars>>

\* send_time_message returns to line 130 and the loop of line 128 goes on;
\* `raised` says whether the attempt ended in the handler of line 110
\* (AttemptOver).  In the variant before it a raising attempt ends the loop,
\* which FailureIsolation tells apart.
AttemptOverAborts(p, raised) ==
    /\ idx' = [idx EXCEPT ![p] =
                 IF raised \/ @ = Len(pending_messages[p]) THEN 0 ELSE @ + 1]
    /\ pc' = [pc EXCEPT ![p] =
                IF raised \/ idx[p] = Len(pending_messages[p])
                THEN "done" ELSE "fetch"]
    /\ failed' = [failed EXCEPT ![p] = IF raised THEN @ \cup {Current(p)} ELSE @]

AttemptOver(p, raised) ==
    /\ idx' = [idx EXCEPT ![p] = IF @ = Len(pending_messages[p]) THEN 0 ELSE @ + 1]
    /\ pc' = [pc EXCEPT ![p] =
                IF idx[p] = Len(pending_messages[p]) THEN "done" ELSE "fetch"]
    /\ failed' = [failed EXCEPT ![p] = IF raised THEN @ \cup {Current(p)} ELSE @]

\* ------------------------------------------------------ send_time_message
\* lines 77-79: the row is read; absent or delivered returns at once.
Fetch(p) ==
    /\ pc[p] = "fetch"
    /\ IF AlreadyHandled(messages, Current(p))
       THEN AttemptOver(p, FALSE)
       ELSE /\ pc' = [pc EXCEPT ![p] = "send"]
            /\ UNCHANGED <<idx, failed>>
    /\ UNCHANGED <<clock, storeVars, webVars, procVars, current_time,
                   pending_messages, histVars, failures>>

\* line 101: mail.send succeeds.
SendOk(p) ==
    /\ pc[p] = "send"
    /\ notified' = notified \cup {Current(p)}
    /\ pc' = [pc EXCEPT ![p] = "commit"]
    /\ UNCHANGED <<clock, storeVars, webVars, procVars, current_time,
                   pending_messages, idx, failed, returned_early, failures>>

\* line 101 raises: caught at line 110, nothing was written (SendFails).  In
\* the variant before it the failed attempt records delivery, which
\* NotifierFailureRetryable tells apart.
SendFailsMarksDelivered(p) ==
    /\ pc[p] = "send"
    /\ CanFail
    /\ failures' = failures + 1
    /\ messages' = MarkDelivered(messages, Current(p), clock)
    /\ AttemptOver(p, TRUE)
    /\ UNCHANGED <<clock, users, webVars, procVars, current_time,
                   pending_messages, histVars>>

SendFails(p) ==
    /\ pc[p] = "send"
    /\ CanFail
    /\ failures' = failures + 1
    /\ AttemptOver(p, TRUE)
    /\ UNCHANGED <<clock, storeVars, webVars, procVars, current_time,
                   pending_messages, histVars>>

\* lines 104-106: the commit writes delivered and delivered_at, the latter
\* read from the clock at line 105 (CommitOk).  The variant before it writes
\* the scheduled time, which DeliveredAtIsCommitInstant tells apart.
CommitOkAtDue(p) ==
    /\ pc[p] = "commit"
    /\ messages' = MarkDelivered(messages, Current(p),
                                 messages[Current(p)].delivery_datetime)
    /\ AttemptOver(p, FALSE)
    /\ UNCHANGED <<clock, users, webVars, procVars, current_time,
                   pending_messages, histVars, failures>>

CommitOk(p) ==
    /\ pc[p] = "commit"
    /\ messages' = MarkDelivered(messages, Current(p), clock)
    /\ AttemptOver(p, FALSE)
    /\ UNCHANGED <<clock, users, webVars, procVars, current_time,
                   pending_messages, histVars, failures>>

\* line 106 raises: caught at line 110; the session is discarded with the
\* app context, so nothing is written.
CommitFails(p) ==
    /\ pc[p] = "commit"
    /\ CanFail
    /\ failures' = failures + 1
    /\ AttemptOver(p, TRUE)
    /\ UNCHANGED <<clock, storeVars, webVars, procVars, current_time,
                   pending_messages, histVars>>

\* check_and_send_messages returns (line 131 or 133); the job thread is free.
TickReturn(p) ==
    /\ pc[p] \in {"done", "error"}
    /\ pc' = [pc EXCEPT ![p] = "idle"]
    /\ current_time' = [current_time EXCEPT ![p] = NoneVal]
    /\ pending_messages' = [pending_messages EXCEPT ![p] = <<>>]
    /\ idx' = [idx EXCEPT ![p] = 0]
    /\ failed' = [failed EXCEPT ![p] = {}]
    /\ UNCHANGED <<clock, storeVars, webVars, procVars, histVars, failures>>

Tick(p) ==
    \/ QueryOk(p)
    \/ QueryFails(p)
    \/ Fetch(p)
    \/ SendOk(p)
    \/ SendFails(p)
    \/ CommitOk(p)
    \/ CommitFails(p)
    \/ TickReturn(p)

\* --------------------------------------------------------------- routes
\* A request is handled by a process instance p whose server is up, with the
\* client's cookie.
EmptySession == [user_id |-> NoneVal, username |-> "", app_start_time |-> NoneVal]

\* generate_password_hash / check_password_hash (lines 53-59).
generate_password_hash(password) == <<"hash", password>>
check_password_hash(h, password) == h = generate_password_hash(password)

\* is_session_valid (lines 159-161), in process instance p.
is_session_valid(p) == session.app_start_time = APP_START_TIME[p]

\* User.query.filter_by(...).first() is not None
UsernameTaken(username) == \E i \in DOMAIN users : users[i].username = username
EmailTaken(email) == \E i \in DOMAIN users : users[i].email = email

\* POST /register (lines 171-203).
register(p, username, email, password) ==
    /\ phase[p] = "serving"
    /\ users' =
         IF username = "" \/ email = "" \/ password = "" THEN users
         ELSE IF UsernameTaken(username) THEN users
         ELSE IF EmailTaken(email) THEN users
         ELSE Append(users, [id |-> Len(users) + 1, username |-> username,
                             email |-> email,
                             password_hash |-> generate_password_hash(password)])
    /\ UNCHANGED <<clock, messages, webVars, procVars, tickVars, histVars,
                   failures>>

\* POST /login, lines 212-221: the session the handler leaves
\* (login_session).  The float APP_START_TIME goes through the cookie's JSON
\* and comes back the same float.  The variant before it omits line 217,
\* which EpochStampedAtLogin tells apart.
login_sessionUnstamped(p, username, password) ==
    IF \E i \in DOMAIN users :
           /\ users[i].username = username
           /\ check_password_hash(users[i].password_hash, password)
    THEN LET i == CHOOSE i \in DOMAIN users : users[i].username = username
         IN [user_id |-> users[i].id, username |-> users[i].username,
             app_start_time |-> session.app_start_time]
    ELSE session

login_session(p, username, password) ==
    IF \E i \in DOMAIN users :
           /\ users[i].username = username
           /\ check_password_hash(users[i].password_hash, password)
    THEN LET i == CHOOSE i \in DOMAIN users : users[i].username = username
         IN [user_id |-> users[i].id, username |-> users[i].username,
             app_start_time |-> APP_START_TIME[p]]
    ELSE session

\* POST /login (lines 205-223).
login(p, username, password) ==
    /\ phase[p] = "serving"
    /\ session' = login_session(p, username, password)
    /\ UNCHANGED <<clock, storeVars, test_mails, procVars, tickVars, histVars,
                   failures>>

\* GET /logout (lines 225-230).
logout(p) ==
    /\ phase[p] = "serving"
    /\ session' = EmptySession
    /\ UNCHANGED <<clock, storeVars, test_mails, procVars, tickVars, histVars,
                   failures>>

\* GET /dashboard (lines 232-247).
dashboard(p) ==
    /\ phase[p] = "serving"
    /\ session' =
         IF session.user_id = NoneVal \/ ~is_session_valid(p) THEN EmptySession
         ELSE IF session.user_id \notin DOMAIN users THEN EmptySession
         ELSE session
    /\ UNCHANGED <<clock, storeVars, test_mails, procVars, tickVars, histVars,
                   failures>>

\* POST /create_message (lines 251-302).  datetime.now() is read at line 280
\* and again, for created_at, when line 297 flushes the row: `later` is the
\* second reading.
create_message(p, content, recipient_email, delivery, later) ==
    /\ phase[p] = "serving"
    /\ Len(messages) < MaxMsgs
    /\ IF session.user_id = NoneVal
       THEN UNCHANGED <<session, messages, clock>>
       ELSE IF session.user_id \notin DOMAIN users
       THEN session' = EmptySession /\ UNCHANGED <<messages, clock>>
       ELSE IF content = "" \/ recipient_email = "" \/ delivery = BadFormat
       THEN UNCHANGED <<session, messages, clock>>
       ELSE IF delivery <= clock
       THEN UNCHANGED <<session, messages, clock>>
       ELSE /\ clock' = later
            /\ messages' = Append(messages,
                   TimeMessage(Len(messages) + 1, session.user_id, content,
                               recipient_email, delivery, later))
            /\ UNCHANGED session
    /\ UNCHANGED <<users, test_mails, procVars, tickVars, histVars, failures>>

\* GET /test_email (lines 304-321); a failing mail.send changes nothing.
test_email(p) ==
    /\ phase[p] = "serving"
    /\ test_mails' =
         IF session.user_id = NoneVal THEN test_mails
         ELSE test_mails \cup {users[session.user_id].email}
    /\ UNCHANGED <<clock, storeVars, session, procVars, tickVars, histVars,
                   failures>>

\* The routes that author messages; the handlers take no time.
Authoring(p) ==
    \/ \E u \in Usernames, e \in Emails, w \in Passwords : register(p, u, e, w)
    \/ \E u \in Usernames, w \in Passwords : login(p, u, w)
    \/ \E c \in Contents, r \in Recipients, d \in DeliveryInputs :
          create_message(p, c, r, d, clock)

\* create_message while time passes between its two readings of the clock.
SlowAuthoring(p) ==
    \E c \in Contents, r \in Recipients, d \in DeliveryInputs :
        clock < MaxTime /\ create_message(p, c, r, d, clock + 1)

SessionUse(p) ==
    \/ logout(p)
    \/ dashboard(p)
    \/ test_email(p)

Lifecycle(p) ==
    \/ ProcStart(p)
    \/ ServerExit(p)
    \/ ShutdownReturn(p)
    \/ AtExit(p)

\* ------------------------------------------------------------------ Spec
\* The delivery engine: processes, scheduler ticks, and the routes that put
\* messages in the store.
Next ==
    \/ Advance
    \/ \E p \in Procs : Lifecycle(p)
    \/ \E p \in Procs : Tick(p)
    \/ \E p \in Procs : Authoring(p)

Spec == Init /\ [][Next]_vars

\* The session routes: processes and every route, without the scheduler job.
WebNext ==
    \/ Advance
    \/ \E p \in Procs : Lifecycle(p)
    \/ \E p \in Procs : Authoring(p)
    \/ \E p \in Procs : SlowAuthoring(p)
    \/ \E p \in Procs : SessionUse(p)

WebSpec == Init /\ [][WebNext]_vars

\* A scheduler that is never shut down: no server exits.  The scheduler's
\* timer thread fires the job every interval and the job thread runs each
\* tick to its end.
LiveNext ==
    \/ Advance
    \/ \E p \in Procs : ProcStart(p)
    \/ \E p \in Procs : Tick(p)
    \/ \E p \in Procs : Authoring(p)

LiveSpec == Init /\ [][LiveNext]_vars /\ \A p \in Procs : WF_vars(Tick(p))

\* ------------------------------------------- send_time_message, called
\* A store the program can hold at time `now`: ids in creation order, no
\* created_at after the row's delivery_datetime (create_message reads the
\* clock at line 280 and again at line 297), delivered rows written at or
\* after their delivery_datetime.
RowsAt(i, now) ==
    {r \in [id : {i}, user_id : {1}, content : {"hello"},
            recipient_email : {"bob@x"}, delivery_datetime : 1..MaxTime,
            delivered : BOOLEAN, created_at : 0..now,
            delivered_at : {NoneVal} \cup (1..now)] :
        /\ r.created_at <= r.delivery_datetime
        /\ r.delivered = (r.delivered_at # NoneVal)
        /\ r.delivered => r.delivery_datetime <= r.delivered_at}

RECURSIVE StoresOfLen(_, _)
StoresOfLen(n, now) ==
    IF n = 0 THEN {<<>>}
    ELSE {Append(st, r) : st \in StoresOfLen(n - 1, now), r \in RowsAt(n, now)}

Stores(now) ==
    {st \in UNION {StoresOfLen(n, now) : n \in 0..MaxMsgs} :
        \A i \in DOMAIN st : i > 1 => st[i - 1].created_at <= st[i].created_at}

AttemptInit ==
    /\ clock \in 0..MaxTime
    /\ messages \in Stores(clock)
    /\ users = <<>>
    /\ session = [user_id |-> NoneVal, username |-> "", app_start_time |-> NoneVal]
    /\ test_mails = {}
    /\ APP_START_TIME = [p \in Procs |-> NoneVal]
    /\ phase = [p \in Procs |-> "down"]
    /\ scheduler = [p \in Procs |-> "None"]
    /\ instances = [p \in Procs |-> 0]
    /\ shutdown_runs = [p \in Procs |-> <<>>]
    /\ pc = [p \in Procs |-> "idle"]
    /\ current_time = [p \in Procs |-> NoneVal]
    /\ pending_messages = [p \in Procs |-> <<>>]
    /\ idx = [p \in Procs |-> 0]
    /\ failed = [p \in Procs |-> {}]
    /\ notified = {}
    /\ returned_early = {}
    /\ failures = 0

\* One call send_time_message(message_id), run from line 75 to its return.
DirectCall(message_id, mail_ok, commit_ok) ==
    /\ LET r == send_time_message(messages, message_id, clock, mail_ok, commit_ok)
       IN /\ messages' = r.messages
          /\ notified' = IF r.mails > 0 THEN notified \cup {message_id}
                         ELSE notified
    /\ returned_early' = IF AlreadyHandled(messages, message_id)
                         THEN returned_early \cup {message_id}
                         ELSE returned_early
    /\ UNCHANGED <<clock, users, webVars, procVars, tickVars, failures>>

AttemptNext ==
    \/ Advance
    \/ \E id \in MsgIds, mail_ok \in BOOLEAN, commit_ok \in BOOLEAN :
          DirectCall(id, mail_ok, commit_ok)

AttemptSpec == AttemptInit /\ [][AttemptNext]_vars

\* --------------------------- init_scheduler and the shutdown path, called
\* One call init_scheduler() in process instance p.
StartCall(p) ==
    /\ scheduler' = [scheduler EXCEPT ![p] = init_scheduler(@)]
    /\ instances' = [instances EXCEPT ![p] =
                       init_scheduler_instances(scheduler[p], @)]
    /\ UNCHANGED <<clock, storeVars, webVars, APP_START_TIME, phase,
                   shutdown_runs, tickVars, histVars, failures>>

\* One run of `if scheduler: scheduler.shutdown()` in process instance p.
StopCall(p) ==
    /\ Len(shutdown_runs[p]) < MaxStopCalls
    /\ scheduler' = [scheduler EXCEPT ![p] = shutdown_path(@)]
    /\ shutdown_runs' = [shutdown_runs EXCEPT ![p] = Append(@, scheduler[p])]
    /\ UNCHANGED <<clock, storeVars, webVars, APP_START_TIME, phase,
                   instances, tickVars, histVars, failures>>

\* The two functions called in any order and number, on any store.
LifecycleNext ==
    \/ Advance
    \/ \E p \in Procs : StartCall(p)
    \/ \E p \in Procs : StopCall(p)

LifecycleSpec == AttemptInit /\ [][LifecycleNext]_vars

\* ================================================================ claims
Stored == DOMAIN messages

\* The step is the mail.send of process instance p returning (line 101).
MailSentBy(p) == pc[p] = "send" /\ pc'[p] = "commit"

\* The step is the commit of process instance p writing the row (line 106).
WrittenBy(p) == pc[p] = "commit" /\ messages' # messages

\* C1: no early delivery.  Every step that notifies the recipient of a
\* message or writes its delivered / delivered_at is a step of a tick whose
\* captured current_time is at or after the message's delivery_datetime; a
\* message that is later than the captured time is in no tick's batch.
NoEarlyDelivery ==
    /\ [][\A m \in Stored :
            (\/ m \in notified' \ notified
             \/ messages'[m].delivered # messages[m].delivered
             \/ messages'[m].delivered_at # messages[m].delivered_at)
            => \E p \in Procs :
                  /\ pc[p] \in {"send", "commit"}
                  /\ Current(p) = m
                  /\ messages[m].delivery_datetime <= current_time[p]]_vars
    /\ [](\A p \in Procs : \A k \in DOMAIN pending_messages[p] :
            messages[pending_messages[p][k]].delivery_datetime <= current_time[p])

\* C1 witness: a tick has delivered a due message while another stored
\* message, later than the tick's captured time, was left alone.
NoEarlyDeliveryWitness ==
    \E p \in Procs : \E m, n \in Stored :
        /\ pc[p] = "done"
        /\ messages[m].delivered
        /\ m \in DOMAIN pending_messages[p] /\ pending_messages[p][1] = m
        /\ messages[n].delivery_datetime > current_time[p]
        /\ ~messages[n].delivered
        /\ n \notin notified

\* C2: no message is delivered twice: a mail.send never succeeds for a
\* message id a mail.send has already succeeded for.
NoDuplicateNotification ==
    [][\A p \in Procs : MailSentBy(p) => Current(p) \notin notified]_vars

\* C3: the write that records delivery is conditional on delivered still
\* being false: every commit that writes the row performs the false -> true
\* transition, delivered_at is written once per message.
AtMostOnceTransition ==
    [][\A p \in Procs : WrittenBy(p) => ~messages[Current(p)].delivered]_vars

\* C9: the delivered flag is monotonic: a message that is delivered stays in
\* the store and stays delivered over every step, and a message enters the
\* store undelivered.
DeliveredMonotonic ==
    [][/\ \A m \in Stored :
             messages[m].delivered
             => m \in DOMAIN messages' /\ messages'[m].delivered
       /\ \A m \in DOMAIN messages' \ Stored : ~messages'[m].delivered]_vars

\* C9 witness: a second commit is about to write a message that is already
\* delivered.
DeliveredMonotonicWitness ==
    \E p \in Procs :
        /\ pc[p] = "commit"
        /\ messages[Current(p)].delivered

\* C4: eventual delivery.  A tick that ends has delivered every message that
\* was due at its captured time, unless that message's own attempt raised;
\* and with a scheduler running and never shut down, every message that is
\* due is eventually delivered (failures are finitely many).
EventualDelivery ==
    /\ [](\A p \in Procs : pc[p] = "done" =>
            \A m \in Stored :
                (/\ messages[m].created_at <= current_time[p]
                 /\ messages[m].delivery_datetime <= current_time[p])
                => messages[m].delivered \/ m \in failed[p])
    /\ \A m \in MsgIds :
          (/\ \E p \in Procs : scheduler[p] = "running"
           /\ m \in Stored
           /\ messages[m].delivery_datetime <= clock)
          ~> (m \in Stored /\ messages[m].delivered)

\* C4 witness: after a failed attempt, a later tick has delivered the message.
EventualDeliveryWitness ==
    \E p \in Procs : \E m \in Stored :
        /\ pc[p] = "done"
        /\ failures > 0
        /\ failed[p] = {}
        /\ m \in notified
        /\ pending_messages[p] # <<>> /\ pending_messages[p][1] = m
        /\ messages[m].delivered
        /\ messages[m].delivered_at > messages[m].delivery_datetime

\* C5: idempotent re-dispatch.  A call of send_time_message with an id that
\* is absent or already delivered sends no mail and leaves the store as it
\* is; two calls in sequence leave the store and the mails of one call.
IdempotentRedispatch ==
    /\ [](\A id \in MsgIds : \A mail_ok, commit_ok \in BOOLEAN :
            (id \notin Stored \/ messages[id].delivered)
            => send_time_message(messages, id, clock, mail_ok, commit_ok)
                 = [messages |-> messages, mails |-> 0])
    /\ [](\A id \in MsgIds : \A later \in clock..MaxTime :
            LET once == send_time_message(messages, id, clock, TRUE, TRUE)
                twice == send_time_message(once.messages, id, later, TRUE, TRUE)
            IN twice.messages = once.messages /\ once.mails + twice.mails = once.mails)
    /\ [][\A id \in MsgIds :
            (id \notin Stored \/ messages[id].delivered)
            => /\ id \in Stored => messages'[id] = messages[id]
               /\ Len(messages') = Len(messages)
               /\ id \in notified' => id \in notified]_vars

\* C5 witness: a message delivered by one call was dispatched again, and an
\* absent id was dispatched too.
IdempotentRedispatchWitness ==
    /\ \E id \in returned_early :
          id \in Stored /\ id \in notified /\ messages[id].delivered
    /\ \E id \in returned_early : id \notin Stored

\* C6: failure isolation within a tick.  When the tick ends, every message of
\* its batch whose own attempt did not raise is delivered, wherever in the
\* batch the failing message was.
FailureIsolation ==
    \A p \in Procs : pc[p] = "done" =>
        \A k \in DOMAIN pending_messages[p] :
            \/ pending_messages[p][k] \in failed[p]
            \/ messages[pending_messages[p][k]].delivered

\* C6 witness: the first message of a batch of two failed and the second was
\* delivered by the same tick.
FailureIsolationWitness ==
    \E p \in Procs :
        /\ pc[p] = "done"
        /\ Len(pending_messages[p]) = 2
        /\ failed[p] = {pending_messages[p][1]}
        /\ ~messages[pending_messages[p][1]].delivered
        /\ messages[pending_messages[p][2]].delivered
        /\ messages[pending_messages[p][2]].delivered_at >= current_time[p]
        /\ pending_messages[p][2] \in notified

\* The step is the mail.send of process instance p raising (line 101).
MailFailedBy(p) ==
    /\ pc[p] = "send"
    /\ failures' = failures + 1
    /\ \A q \in Procs \ {p} : pc'[q] = pc[q]

\* C7: a failing Notifier leaves the message untouched and retryable: the
\* failing step writes nothing and ends the attempt (no second mail.send in
\* it), the message is still what the due query selects, and every due
\* query that runs returns each message that is due and undelivered.
NotifierFailureRetryable ==
    /\ [][\A p \in Procs : MailFailedBy(p) =>
            /\ messages' = messages
            /\ notified' = notified
            /\ pc'[p] \in {"fetch", "done"}
            /\ idx'[p] # idx[p]
            /\ ~messages[Current(p)].delivered =>
                   /\ ~messages'[Current(p)].delivered
                   /\ messages'[Current(p)].delivered_at = NoneVal
                   /\ messages'[Current(p)].delivery_datetime <= clock']_vars
    /\ [][\A q \in Procs :
            (pc[q] = "idle" /\ pc'[q] \in {"fetch", "done"}) =>
                \A m \in Stored :
                    (~messages[m].delivered /\ messages[m].delivery_datetime <= clock)
                    => \E k \in DOMAIN pending_messages'[q] :
                          pending_messages'[q][k] = m]_vars

\* C7 witness: the mail of a message failed, and the message is undelivered,
\* never notified, and due.
NotifierFailureRetryableWitness ==
    \E p \in Procs : \E m \in failed[p] :
        /\ m \notin notified
        /\ ~messages[m].delivered
        /\ messages[m].delivered_at = NoneVal
        /\ m \in DueUndelivered(messages, clock)

\* The session cookie was minted by no process instance that is serving now.
StaleSession ==
    /\ session.user_id # NoneVal
    /\ \A p \in Procs :
          phase[p] = "serving" => session.app_start_time # APP_START_TIME[p]

\* C8: epoch invalidation.  A request that bears a session minted under
\* another epoch has no privileged effect: it stores no message and sends no
\* mail.
EpochInvalidation ==
    [][StaleSession =>
          /\ Len(messages') = Len(messages)
          /\ test_mails' = test_mails]_vars

\* C10: tick-level fault containment.  A tick whose due query raises writes
\* nothing and leaves the scheduler running, and a later tick of the same
\* scheduler runs its due query.
TickFaultContained ==
    /\ [](\A p \in Procs : pc[p] = "error" => scheduler[p] = "running")
    /\ [][\A p \in Procs : (pc[p] = "idle" /\ pc'[p] = "error") =>
            /\ messages' = messages
            /\ notified' = notified]_vars
    /\ \A p \in Procs : (pc[p] = "error") ~> (pc[p] \in {"fetch", "done"})

\* C10 witness: a tick raised while a message was due and undelivered.
TickFaultContainedWitness ==
    \E p \in Procs :
        /\ pc[p] = "error"
        /\ scheduler[p] = "running"
        /\ DueUndelivered(messages, clock) # {}

\* C11: start is idempotent.  A process never holds more than one scheduler
\* (with its one job 'message_checker'); init_scheduler called while the
\* scheduler is running creates nothing and leaves it as it is; and a tick
\* starts only as the job of that one running scheduler, one at a time.
SingleScheduler ==
    /\ [](\A p \in Procs :
            /\ instances[p] <= 1
            /\ (scheduler[p] = "None") = (instances[p] = 0)
            /\ phase[p] = "serving" => instances[p] = 1)
    /\ [](\A p \in Procs : scheduler[p] = "running" =>
            /\ init_scheduler(scheduler[p]) = scheduler[p]
            /\ init_scheduler_instances(scheduler[p], instances[p]) = instances[p])
    /\ [][\A p \in Procs :
            (pc[p] = "idle" /\ pc'[p] # "idle")
            => scheduler[p] = "running" /\ instances[p] = 1]_vars

\* C11 witness: after the two init_scheduler calls of lines 154 and 340 the
\* process serves with one scheduler, whose job is running a tick.
SingleSchedulerWitness ==
    \E p \in Procs :
        /\ phase[p] = "serving"
        /\ scheduler[p] = "running"
        /\ instances[p] = 1
        /\ pc[p] = "fetch"

\* C12: stop is safe when never started.  A run of the shutdown path while
\* `scheduler` is None changes nothing (no shutdown call is made), and the
\* scheduler only ever moves None -> running -> stopped.
StopNeverStarted ==
    /\ [][\A p \in Procs :
            (scheduler[p] = "None" /\ shutdown_runs'[p] # shutdown_runs[p])
            => /\ scheduler' = scheduler
               /\ instances' = instances
               /\ UNCHANGED <<clock, storeVars, webVars, APP_START_TIME, phase,
                              tickVars, histVars, failures>>]_vars
    /\ [][\A p \in Procs :
            scheduler'[p] # scheduler[p]
            => \/ scheduler[p] = "None" /\ scheduler'[p] = "running"
               \/ scheduler[p] = "running" /\ scheduler'[p] = "stopped"]_vars

\* C12 witness: the shutdown path has run in a process that never started a
\* scheduler, and the process has none.
StopNeverStartedWitness ==
    \E p \in Procs :
        /\ shutdown_runs[p] # <<>>
        /\ \A k \in DOMAIN shutdown_runs[p] : shutdown_runs[p][k] = "None"
        /\ scheduler[p] = "None"
        /\ instances[p] = 0

\* C20: shutdown is called at most once per process, and only on a running
\* scheduler: every run of the shutdown path that calls scheduler.shutdown()
\* finds the scheduler running, and there is at most one such run.
ShutdownOnceWhileRunning ==
    \A p \in Procs :
        /\ \A k \in DOMAIN shutdown_runs[p] :
              shutdown_runs[p][k] \in {"None", "running"}
        /\ Cardinality({k \in DOMAIN shutdown_runs[p] :
                            shutdown_runs[p][k] # "None"}) <= 1

\* C13: graceful shutdown.  scheduler.shutdown() returns only when the job
\* thread is idle, so once it has returned the process has no attempt
\* between mail.send and the commit.
GracefulShutdown ==
    /\ [](\A p \in Procs : phase[p] \in {"atexit", "exited"} => pc[p] = "idle")
    /\ [][\A p \in Procs :
            (phase[p] = "finally" /\ phase'[p] = "atexit")
            => pc[p] = "idle" /\ pc'[p] = "idle"]_vars

\* C13 witness: shutdown has been called and waits while the tick in flight
\* is between mail.send and the commit.
GracefulShutdownWitness ==
    \E p \in Procs :
        /\ phase[p] = "finally"
        /\ scheduler[p] = "stopped"
        /\ pc[p] = "commit"
        /\ Current(p) \in notified
        /\ ~messages[Current(p)].delivered

\* The step is the successful commit of process instance p (line 106).
CommittedBy(p) == WrittenBy(p) /\ pc'[p] # "commit"

\* C15: a message that a tick marks delivered gets delivered_at equal to the
\* current_time the tick captured for its due query.
DeliveredAtIsTickNow ==
    [][\A p \in Procs :
          CommittedBy(p)
          => messages'[Current(p)].delivered_at = current_time[p]]_vars

\* C15 as amended: delivered_at is the clock reading of line 105, taken when
\* the attempt records the delivery.
DeliveredAtIsCommitInstant ==
    [][\A p \in Procs :
          CommittedBy(p) => messages'[Current(p)].delivered_at = clock']_vars

\* C15 witness: the only process that ever ran has delivered a message of its
\* batch later than the current_time of the tick.
DeliveredAtIsCommitInstantWitness ==
    \E p \in Procs : \E k \in DOMAIN pending_messages[p] :
        /\ \A q \in Procs \ {p} : phase[q] = "down"
        /\ pc[p] = "done"
        /\ messages[pending_messages[p][k]].delivered
        /\ messages[pending_messages[p][k]].delivered_at > current_time[p]

\* C16: frame of the delivery path.  A step of a tick or of an attempt
\* inserts and deletes no row, leaves id, user_id, content, recipient_email,
\* delivery_datetime and created_at of every message as they are, and
\* changes no message but the one the committing attempt is for.
FrameOfDelivery ==
    [][tickVars' # tickVars =>
          /\ DOMAIN messages' = DOMAIN messages
          /\ users' = users
          /\ \A m \in Stored :
                /\ messages'[m].id = messages[m].id
                /\ messages'[m].user_id = messages[m].user_id
                /\ messages'[m].content = messages[m].content
                /\ messages'[m].recipient_email = messages[m].recipient_email
                /\ messages'[m].delivery_datetime = messages[m].delivery_datetime
                /\ messages'[m].created_at = messages[m].created_at
                /\ messages'[m] # messages[m]
                   => \E p \in Procs : CommittedBy(p) /\ Current(p) = m]_vars

\* C16 witness: a message was delivered while another message was in the
\* store, and that one is untouched.
FrameOfDeliveryWitness ==
    \E m, n \in Stored :
        /\ m # n
        /\ messages[m].delivered
        /\ messages[n].created_at < messages[m].delivered_at
        /\ ~messages[n].delivered
        /\ messages[n].delivered_at = NoneVal
        /\ messages[n].content = "hello"

\* C17: messages survive a stop.  The steps of the shutdown (the finally
\* block, the return of shutdown, the atexit hook) change no message; and
\* once a process has stopped its scheduler, every due query that runs
\* returns every message that is due and undelivered, and the tick attempts
\* (reaches mail.send for) each one that is still undelivered at its turn.
MessagesSurviveStop ==
    /\ [][\A p \in Procs :
            (phase'[p] # phase[p] /\ phase[p] # "down") => messages' = messages]_vars
    /\ [][\A q \in Procs :
            (/\ \E p \in Procs \ {q} : scheduler[p] = "stopped"
             /\ pc[q] = "idle" /\ pc'[q] \in {"fetch", "done"})
            => \A m \in Stored :
                  (~messages[m].delivered /\ messages[m].delivery_datetime <= clock)
                  => \E k \in DOMAIN pending_messages'[q] :
                        pending_messages'[q][k] = m]_vars
    /\ [][\A q \in Procs :
            (/\ pc[q] = "fetch"
             /\ pc'[q] # pc[q] \/ idx'[q] # idx[q]
             /\ ~messages[Current(q)].delivered)
            => pc'[q] = "send" /\ idx'[q] = idx[q]]_vars

\* C17 witness: the first process has exited, leaving a due message that no
\* mail was sent for, and the next process's tick is at its mail.send.
MessagesSurviveStopWitness ==
    \E p, q \in Procs :
        /\ p < q
        /\ phase[p] = "exited"
        /\ phase[q] = "serving"
        /\ pc[q] = "send"
        /\ Current(q) \notin notified
        /\ ~messages[Current(q)].delivered
        /\ messages[Current(q)].delivered_at = NoneVal

\* C19: in every state of the store, a message is delivered exactly when
\* its delivered_at is set.
DeliveredIffDeliveredAt ==
    \A m \in Stored : messages[m].delivered = (messages[m].delivered_at # NoneVal)

\* C19 witness: one message was delivered, and the commit of another failed
\* after its mail was sent: that one has neither field written.
DeliveredIffDeliveredAtWitness ==
    \E p \in Procs : \E m, n \in Stored :
        /\ messages[m].delivered /\ messages[m].delivered_at # NoneVal
        /\ n \in failed[p] /\ n \in notified
        /\ ~messages[n].delivered /\ messages[n].delivered_at = NoneVal

\* C14: every stored message has delivery_datetime strictly later than its
\* created_at.
DeliveryAfterCreation ==
    \A m \in Stored : messages[m].delivery_datetime > messages[m].created_at

\* The credentials are those of a registered user.
ValidCredentials(username, password) ==
    \E i \in DOMAIN users :
        /\ users[i].username = username
        /\ users[i].password_hash = generate_password_hash(password)

\* C18: tokens are stamped with the live epoch at minting.  A successful
\* login leaves a session that bears the handling process's APP_START_TIME
\* and passes is_session_valid there; a failed login leaves the session as
\* it was; a process's APP_START_TIME never changes once it serves; and the
\* session changes only by being cleared or minted anew, so it stays valid
\* in its process until then.
EpochStampedAtLogin ==
    /\ [](\A p \in Procs : phase[p] = "serving" =>
            \A u \in Usernames, w \in Passwords :
                LET s == login_session(p, u, w)
                IN IF ValidCredentials(u, w)
                   THEN /\ s.user_id \in DOMAIN users
                        /\ users[s.user_id].username = u
                        /\ s.app_start_time = APP_START_TIME[p]
                   ELSE s = session)
    /\ [][\A p \in Procs :
            phase[p] # "down" => APP_START_TIME'[p] = APP_START_TIME[p]]_vars
    /\ [][session' # session =>
            \/ session' = EmptySession
            \/ \E p \in Procs :
                  /\ phase[p] = "serving"
                  /\ session'.user_id \in DOMAIN users
                  /\ session'.app_start_time = APP_START_TIME[p]]_vars
    /\ [](session.user_id # NoneVal =>
            \E p \in Procs : phase[p] # "down" /\ is_session_valid(p))

\* C18 witness: a session minted by the serving process has been used for a
\* later request there (a message was created in it) and still passes the
\* epoch check.
EpochStampedAtLoginWitness ==
    \E p \in Procs :
        /\ phase[p] = "serving"
        /\ session.user_id \in DOMAIN users
        /\ is_session_valid(p)
        /\ \E m \in Stored : messages[m].user_id = session.user_id

====
